---- MODULE Spec2Model ----
(* INIR2-ME-100 methane sensor driver: frame synchronizer (_read_frame),   *)
(* frame validator (validate_response), sensor facade (gas_concentration), *)
(* 2-character hex decoder and fault bitfield decoder (FaultCodes).        *)
EXTENDS Integers, Sequences, FiniteSets, TLC

VARIABLES
    pc,             \* position of the gas_concentration / read_frame call
    clock,          \* time.time(), in half seconds since the call started
    t_end,          \* deadline of _read_frame
    read_attempts,  \* _read_frame local
    message,        \* _read_frame local: the accumulator
    buffer,         \* input buffer of the serial port (whole tokens)
    emitted,        \* number of tokens the sensor has sent during this call
    pending,        \* scripted source: tokens the sensor has still to send
    script,         \* scripted source: everything the sensor sends
    fragLen,        \* scripted source: length of the leading fragment
    late,           \* scripted source: a token arrived at or after t_end
    port_open,      \* serial.Serial.is_open of _serial_port_object
    exc,            \* exception type that escaped to the caller
    cause,          \* exception type raised inside the call
    frame,          \* validate_response called directly: its argument
    valid,          \* validate_response called directly: its outcome
    hex_value,      \* decode_single_hex_value: argument (characters)
    conversion_type,\* decode_single_hex_value: argument
    decoded_value,  \* decode_single_hex_value: outcome
    raw_value,      \* FaultCodes._raw_value (characters)
    fc_pc,          \* position of FaultCodes(code).extract_faults()
    run,            \* 1: extract_faults in __init__, 2: the caller's call
    next_bit,       \* extract_faults: index of the next fault_bit
    category,       \* extract_faults local
    fault_descriptions, \* extract_faults local
    faults_reported,\* FaultCodes._faults_reported
    fc_result,      \* what extract_faults returned to the caller
    fc_exc,         \* exception raised by FaultCodes / extract_faults
    gas,            \* Sensor._gas_concentration
    faults,         \* Sensor._faults
    temperature,    \* Sensor._temperature
    good_frame      \* history: frame of the last gas_concentration that returned

sensorVars == <<pc, clock, t_end, read_attempts, message, buffer, emitted,
                pending, script, fragLen, late, port_open, exc, cause>>

validateVars == <<frame, valid>>

hexVars == <<hex_value, conversion_type, decoded_value>>

faultVars == <<raw_value, fc_pc, run, next_bit, category, fault_descriptions,
               faults_reported, fc_result, fc_exc>>

pureVars == <<validateVars, hexVars, faultVars>>

facadeVars == <<gas, faults, temperature, good_frame>>

vars == <<sensorVars, pureVars, facadeVars>>

srcVars == <<pending, script, fragLen, late>>

----------------------------------------------------------------------------
(* Program constants *)

START_FRAME == "0000005b"
END_FRAME == "0000005d"
TIMEOUT == 4
TicksPerSecond == 2
SleepTicks == 1
ReadAttemptCap == 20
FrameLen == 7

(* Bounds of the model *)
MaxEmit == 8
BufCap == 2
MaxFrag == 2

DataToken == "000489ae"
NonAscii == "<non-ascii bytes>"
Tokens == {START_FRAME, END_FRAME, DataToken, NonAscii}
NoException == "none"

MaxClock == TIMEOUT * TicksPerSecond + 1

Min(a, b) == IF a < b THEN a ELSE b

Range(s) == {s[i] : i \in DOMAIN s}

----------------------------------------------------------------------------
(* Conditions of _read_frame *)

DecodeFails(data_in) == data_in = NonAscii

(* mutant: the inner loop has no cap on the reads *)
InnerLoopCond_NoCap(buf, attempts) == buf # <<>>

InnerLoopCond(buf, attempts) == buf # <<>> /\ attempts < ReadAttemptCap

(* mutant: the comparison with the start marker inverted *)
WaitingForStart_Inverted(data_decoded, msg) ==
    data_decoded = START_FRAME /\ Len(msg) = 0

WaitingForStart(data_decoded, msg) ==
    data_decoded # START_FRAME /\ Len(msg) = 0

(* mutant: the polling loop never looks at the clock *)
BeforeDeadline_Always(now, deadline) == TRUE

BeforeDeadline(now, deadline) == now < deadline

FrameComplete(msg) == Len(msg) = FrameLen

TimedOut(msg) == Len(msg) < FrameLen

(* mutant: the end marker is not checked *)
validate_response_StartOnly(msg) ==
    IF ~(msg[1] = START_FRAME) THEN "MessageIntegrityError"
    ELSE "True"

(* Sensor.validate_response: "True" or the exception it raises *)
validate_response(msg) ==
    IF ~(msg[1] = START_FRAME) THEN "MessageIntegrityError"
    ELSE IF ~(msg[7] = END_FRAME) THEN "MessageIntegrityError"
    ELSE "True"

(* mutant: the port is left as it is *)
SerialExit_LeavesOpen(open) == open

(* serial.Serial.__exit__: the context manager closes the port *)
SerialExit(open) == FALSE

(* except clause of gas_concentration: the type that reaches the caller *)
gas_concentration_except(e) ==
    IF e \in {"UnicodeDecodeError", "MessageIntegrityError"}
    THEN "INIRException" ELSE e

InCall == pc \in {"outer", "sleep", "inner", "check7", "after"}

----------------------------------------------------------------------------
(* The sensor and the clock *)

SourceEmit ==
    /\ port_open
    /\ pending = <<>> /\ script = <<>>
    /\ emitted < MaxEmit
    /\ Len(buffer) < BufCap
    /\ \E t \in Tokens : buffer' = Append(buffer, t)
    /\ emitted' = emitted + 1
    /\ UNCHANGED <<pureVars, facadeVars, pc, clock, t_end, read_attempts, message, srcVars,
                   port_open, exc, cause>>

SourceEmitScripted ==
    /\ port_open
    /\ pending # <<>>
    /\ Len(buffer) < BufCap
    /\ buffer' = Append(buffer, Head(pending))
    /\ pending' = Tail(pending)
    /\ emitted' = emitted + 1
    /\ late' = (late \/ ~BeforeDeadline(clock, t_end))
    /\ UNCHANGED <<pureVars, facadeVars, pc, clock, t_end, read_attempts, message, script, fragLen,
                   port_open, exc, cause>>

Tick ==
    /\ InCall
    /\ clock < MaxClock
    /\ clock' = clock + 1
    /\ UNCHANGED <<pureVars, facadeVars, pc, t_end, read_attempts, message, buffer, emitted,
                   srcVars, port_open, exc, cause>>

----------------------------------------------------------------------------
(* gas_concentration(frame=None) -> read_frame -> _read_frame *)

read_frame ==
    /\ pc \in {"idle", "returned", "raised"}
    /\ pc' = "outer"
    /\ port_open' = TRUE
    /\ buffer' = <<>>
    /\ emitted' = 0
    /\ clock' = 0
    /\ read_attempts' = 0
    /\ message' = <<>>
    /\ t_end' = TIMEOUT * TicksPerSecond
    /\ pending' = script
    /\ late' = FALSE
    /\ exc' = NoException
    /\ cause' = NoException
    /\ UNCHANGED <<pureVars, facadeVars, script, fragLen>>

read_frame_open_fails ==
    /\ pc \in {"idle", "returned", "raised"}
    /\ script = <<>>
    /\ pc' = "raised"
    /\ cause' = "SerialException"
    /\ exc' = gas_concentration_except("SerialException")
    /\ message' = <<>>
    /\ UNCHANGED <<pureVars, facadeVars, clock, t_end, read_attempts, buffer, emitted, srcVars,
                   port_open>>

(* mutant: the outer loop never tests the deadline *)
OuterCheck_NoTest ==
    /\ pc = "outer"
    /\ pc' = "sleep"
    /\ UNCHANGED <<pureVars, facadeVars, clock, t_end, read_attempts, message, buffer, emitted,
                   srcVars, port_open, exc, cause>>

OuterCheck ==
    /\ pc = "outer"
    /\ pc' = IF BeforeDeadline(clock, t_end) THEN "sleep" ELSE "after"
    /\ UNCHANGED <<pureVars, facadeVars, clock, t_end, read_attempts, message, buffer, emitted,
                   srcVars, port_open, exc, cause>>

Sleep ==
    /\ pc = "sleep"
    /\ clock' = Min(clock + SleepTicks, MaxClock)
    /\ pc' = "inner"
    /\ UNCHANGED <<pureVars, facadeVars, t_end, read_attempts, message, buffer, emitted, srcVars,
                   port_open, exc, cause>>

ReadUndecodable ==
    /\ pc = "inner"
    /\ InnerLoopCond(buffer, read_attempts)
    /\ DecodeFails(Head(buffer))
    /\ read_attempts' = read_attempts + 1
    /\ buffer' = Tail(buffer)
    /\ UNCHANGED <<pureVars, facadeVars, pc, clock, t_end, message, emitted, srcVars, port_open,
                   exc, cause>>

(* mutant: a token that is not the start marker opens the message *)
ReadRejected_Appends ==
    /\ pc = "inner"
    /\ InnerLoopCond(buffer, read_attempts)
    /\ ~DecodeFails(Head(buffer))
    /\ WaitingForStart(Head(buffer), message)
    /\ read_attempts' = read_attempts + 1
    /\ buffer' = Tail(buffer)
    /\ message' = Append(message, Head(buffer))
    /\ UNCHANGED <<pureVars, facadeVars, pc, clock, t_end, emitted, srcVars, port_open,
                   exc, cause>>

ReadRejected ==
    /\ pc = "inner"
    /\ InnerLoopCond(buffer, read_attempts)
    /\ ~DecodeFails(Head(buffer))
    /\ WaitingForStart(Head(buffer), message)
    /\ read_attempts' = read_attempts + 1
    /\ buffer' = Tail(buffer)
    /\ UNCHANGED <<pureVars, facadeVars, pc, clock, t_end, message, emitted, srcVars, port_open,
                   exc, cause>>

(* mutant: the end marker does not leave the inner loop *)
ReadAppend_NoBreak ==
    /\ pc = "inner"
    /\ InnerLoopCond(buffer, read_attempts)
    /\ ~DecodeFails(Head(buffer))
    /\ ~WaitingForStart(Head(buffer), message)
    /\ read_attempts' = read_attempts + 1
    /\ buffer' = Tail(buffer)
    /\ message' = Append(message, Head(buffer))
    /\ UNCHANGED <<pureVars, facadeVars, pc, clock, t_end, emitted, srcVars, port_open,
                   exc, cause>>

ReadAppend ==
    /\ pc = "inner"
    /\ InnerLoopCond(buffer, read_attempts)
    /\ ~DecodeFails(Head(buffer))
    /\ ~WaitingForStart(Head(buffer), message)
    /\ read_attempts' = read_attempts + 1
    /\ buffer' = Tail(buffer)
    /\ message' = Append(message, Head(buffer))
    /\ pc' = IF Head(buffer) = END_FRAME THEN "check7" ELSE "inner"
    /\ UNCHANGED <<pureVars, facadeVars, clock, t_end, emitted, srcVars, port_open, exc, cause>>

ReadSerialError ==
    /\ pc = "inner"
    /\ script = <<>>
    /\ pc' = "raised"
    /\ cause' = "SerialException"
    /\ exc' = gas_concentration_except("SerialException")
    /\ port_open' = SerialExit(port_open)
    /\ UNCHANGED <<pureVars, facadeVars, clock, t_end, read_attempts, message, buffer, emitted,
                   srcVars>>

InnerExit ==
    /\ pc = "inner"
    /\ ~InnerLoopCond(buffer, read_attempts)
    /\ pc' = "check7"
    /\ UNCHANGED <<pureVars, facadeVars, clock, t_end, read_attempts, message, buffer, emitted,
                   srcVars, port_open, exc, cause>>

LengthCheck ==
    /\ pc = "check7"
    /\ pc' = IF FrameComplete(message) THEN "after" ELSE "outer"
    /\ UNCHANGED <<pureVars, facadeVars, clock, t_end, read_attempts, message, buffer, emitted,
                   srcVars, port_open, exc, cause>>

RaiseTimeout ==
    /\ pc = "after"
    /\ TimedOut(message)
    /\ pc' = "raised"
    /\ cause' = "TimeoutError"
    /\ exc' = gas_concentration_except("TimeoutError")
    /\ port_open' = SerialExit(port_open)
    /\ UNCHANGED <<pureVars, facadeVars, clock, t_end, read_attempts, message, buffer, emitted,
                   srcVars>>

ReturnFrame ==
    /\ pc = "after"
    /\ ~TimedOut(message)
    /\ pc' = "frame_read"
    /\ port_open' = SerialExit(port_open)
    /\ UNCHANGED <<pureVars, facadeVars, clock, t_end, read_attempts, message, buffer, emitted,
                   srcVars, exc, cause>>

ValidateFails ==
    /\ pc = "frame_read"
    /\ validate_response(message) # "True"
    /\ pc' = "raised"
    /\ cause' = validate_response(message)
    /\ exc' = gas_concentration_except(validate_response(message))
    /\ UNCHANGED <<pureVars, facadeVars, clock, t_end, read_attempts, message, buffer, emitted,
                   srcVars, port_open>>

ValidatePasses ==
    /\ pc = "frame_read"
    /\ validate_response(message) = "True"
    /\ pc' = "returned"
    /\ UNCHANGED <<pureVars, facadeVars, clock, t_end, read_attempts, message, buffer, emitted,
                   srcVars, port_open, exc, cause>>

SensorStep ==
    \/ read_frame \/ OuterCheck \/ Sleep
    \/ ReadUndecodable \/ ReadRejected \/ ReadAppend
    \/ InnerExit \/ LengthCheck \/ RaiseTimeout \/ ReturnFrame
    \/ ValidateFails \/ ValidatePasses

NotCalled == "not called"

Outcome(k, v, e) == [kind |-> k, value |-> v, error |-> e]

NotDecoded == Outcome("None", 0, NoException)

SensorIdle ==
    /\ pc = "idle"
    /\ clock = 0
    /\ t_end = 0
    /\ read_attempts = 0
    /\ message = <<>>
    /\ buffer = <<>>
    /\ emitted = 0
    /\ pending = <<>>
    /\ late = FALSE
    /\ port_open = FALSE
    /\ exc = NoException
    /\ cause = NoException

ValidateIdle == frame = <<>> /\ valid = NotCalled

HexIdle ==
    /\ hex_value = <<>>
    /\ conversion_type = "ascii"
    /\ decoded_value = NotDecoded

FaultsIdle ==
    /\ raw_value = <<>>
    /\ fc_pc = "idle"
    /\ run = 0
    /\ next_bit = 0
    /\ category = 0
    /\ fault_descriptions = <<>>
    /\ faults_reported = <<>>
    /\ fc_result = <<>>
    /\ fc_exc = NoException

(* class attributes of Sensor before any reading: the types float and str *)
UnsetFloat == [num |-> 0, den |-> 0]
UnsetStr == "<class 'str'>"

FacadeIdle ==
    /\ gas = UnsetFloat
    /\ faults = UnsetStr
    /\ temperature = UnsetFloat
    /\ good_frame = <<>>

Init ==
    /\ FacadeIdle
    /\ SensorIdle
    /\ script = <<>>
    /\ fragLen = 0
    /\ ValidateIdle
    /\ HexIdle
    /\ FaultsIdle

Next ==
    \/ read_frame \/ read_frame_open_fails \/ OuterCheck \/ Sleep
    \/ ReadUndecodable \/ ReadRejected \/ ReadAppend \/ ReadSerialError
    \/ InnerExit \/ LengthCheck \/ RaiseTimeout \/ ReturnFrame
    \/ ValidateFails \/ ValidatePasses
    \/ SourceEmit \/ Tick

Spec == Init /\ [][Next]_vars

(* The interpreter keeps running the call; the clock advances in Sleep.    *)
LiveSpec == Spec /\ WF_vars(SensorStep)

----------------------------------------------------------------------------
(* Scripted source: a leading mid-frame fragment, then one valid frame *)

FieldTokens == {START_FRAME, END_FRAME, DataToken}

Fragments ==
    {<<>>} \cup
    UNION {{f \o <<END_FRAME>> : f \in [1..(n - 1) -> FieldTokens]} :
           n \in 1..MaxFrag}

ValidFrames ==
    {<<START_FRAME>> \o f \o <<END_FRAME>> : f \in [1..5 -> FieldTokens]}

InitResync ==
    /\ FacadeIdle
    /\ SensorIdle
    /\ \E frag \in Fragments, fr \in ValidFrames :
          /\ script = frag \o fr
          /\ fragLen = Len(frag)
    /\ ValidateIdle
    /\ HexIdle
    /\ FaultsIdle

NextResync ==
    \/ read_frame \/ OuterCheck \/ Sleep
    \/ ReadRejected \/ ReadAppend
    \/ InnerExit \/ LengthCheck \/ RaiseTimeout \/ ReturnFrame
    \/ ValidateFails \/ ValidatePasses
    \/ SourceEmitScripted \/ Tick

SpecResync == InitResync /\ [][NextResync]_vars

Fragment == SubSeq(script, 1, fragLen)
ValidFrame == SubSeq(script, fragLen + 1, fragLen + FrameLen)

----------------------------------------------------------------------------
(* Scripted source: a run of tokens that are not accumulated, then a frame *)

MaxNoise == 21

NoiseTokens == {DataToken, NonAscii}

NoiseRuns == UNION {[1..k -> {t}] : k \in 0..MaxNoise, t \in NoiseTokens}

SevenTokenFrame ==
    <<START_FRAME, DataToken, DataToken, DataToken, DataToken, DataToken,
      END_FRAME>>

InitStream ==
    /\ FacadeIdle
    /\ SensorIdle
    /\ \E noise \in NoiseRuns :
          /\ script = noise \o SevenTokenFrame
          /\ fragLen = Len(noise)
    /\ ValidateIdle
    /\ HexIdle
    /\ FaultsIdle

NextStream ==
    \/ read_frame \/ OuterCheck \/ Sleep
    \/ ReadUndecodable \/ ReadRejected \/ ReadAppend
    \/ InnerExit \/ LengthCheck \/ RaiseTimeout \/ ReturnFrame
    \/ ValidatePasses
    \/ SourceEmitScripted \/ Tick

SpecStream == InitStream /\ [][NextStream]_vars

----------------------------------------------------------------------------
(* Sensor.validate_response called on a 7-token frame *)

ZeroToken == "00000000"
FrameTokens == {START_FRAME, END_FRAME, DataToken, ZeroToken}

validate_call ==
    /\ valid = NotCalled
    /\ frame # <<>>
    /\ valid' = validate_response(frame)
    /\ UNCHANGED <<sensorVars, facadeVars, frame, hexVars, faultVars>>

InitValidate ==
    /\ FacadeIdle
    /\ SensorIdle
    /\ script = <<>>
    /\ fragLen = 0
    /\ frame \in [1..FrameLen -> FrameTokens]
    /\ valid = NotCalled
    /\ HexIdle
    /\ FaultsIdle

NextValidate == validate_call

SpecValidate == InitValidate /\ [][NextValidate]_vars

----------------------------------------------------------------------------
(* decode_single_hex_value(hex_value, conversion_type) *)

MaxHexLen == 3

LowerDigits ==
    <<"0", "1", "2", "3", "4", "5", "6", "7", "8", "9",
      "a", "b", "c", "d", "e", "f">>
UpperDigits ==
    <<"0", "1", "2", "3", "4", "5", "6", "7", "8", "9",
      "A", "B", "C", "D", "E", "F">>
HexDigits == Range(LowerDigits) \cup Range(UpperDigits)
NonHexChar == "g"
OtherLengthChars == {"5", "b", "0", NonHexChar}

(* str.lower() on one character *)
lower(c) ==
    IF \E k \in 11..16 : UpperDigits[k] = c
    THEN LowerDigits[CHOOSE k \in 11..16 : UpperDigits[k] = c]
    ELSE c

(* value of one hexadecimal digit, as int(_, 16) and bytes.fromhex read it *)
DigitValue(c) ==
    (CHOOSE k \in 1..16 : LowerDigits[k] = c \/ UpperDigits[k] = c) - 1

IsHex(h) == \A i \in DOMAIN h : h[i] \in HexDigits

(* mutant: the two digits weighted the wrong way round *)
int16_Swapped(h) == DigitValue(h[1]) + 16 * DigitValue(h[2])

(* int(hex_value, 16) of a string of two hexadecimal digits *)
int16(h) == 16 * DigitValue(h[1]) + DigitValue(h[2])

(* bytes.decode('utf-8') of a single byte: only 00..7f is a code point *)
decode_utf8(byte) ==
    IF byte < 128 THEN Outcome("str", byte, NoException)
    ELSE Outcome("raise", 0, "UnicodeDecodeError")

(* mutant: the mode is examined before the length *)
decode_single_hex_value_ModeFirst(h, mode) ==
    IF mode \notin {"ascii", "decimal"}
    THEN Outcome("raise", 0,
                 "ValueError: method only supports ascii or decimal conversion")
    ELSE IF Len(h) # 2
    THEN Outcome("raise", 0, "ValueError: hex value should be 2 chars")
    ELSE IF mode = "ascii"
    THEN IF IsHex(h) THEN decode_utf8(int16(h))
         ELSE Outcome("raise", 0, "ValueError: non-hexadecimal number")
    ELSE IF IsHex(h) THEN Outcome("int", int16(h), NoException)
         ELSE Outcome("raise", 0, "ValueError: invalid literal for int()")

decode_single_hex_value(h, mode) ==
    IF Len(h) # 2
    THEN Outcome("raise", 0, "ValueError: hex value should be 2 chars")
    ELSE IF mode = "ascii"
    THEN IF IsHex(h) THEN decode_utf8(int16(h))
         ELSE Outcome("raise", 0, "ValueError: non-hexadecimal number")
    ELSE IF mode = "decimal"
    THEN IF IsHex(h) THEN Outcome("int", int16(h), NoException)
         ELSE Outcome("raise", 0, "ValueError: invalid literal for int()")
    ELSE Outcome("raise", 0,
                 "ValueError: method only supports ascii or decimal conversion")

HexInputs ==
    [1..2 -> HexDigits \cup {NonHexChar}] \cup
    UNION {[1..n -> OtherLengthChars] : n \in (0..MaxHexLen) \ {2}}

ConversionTypes == {"ascii", "decimal", "binary"}

decode_call ==
    /\ decoded_value = NotDecoded
    /\ hex_value \in HexInputs
    /\ decoded_value' = decode_single_hex_value(hex_value, conversion_type)
    /\ UNCHANGED <<sensorVars, facadeVars, validateVars, hex_value, conversion_type,
                   faultVars>>

InitHex ==
    /\ FacadeIdle
    /\ SensorIdle
    /\ script = <<>>
    /\ fragLen = 0
    /\ ValidateIdle
    /\ hex_value \in HexInputs
    /\ conversion_type \in ConversionTypes
    /\ decoded_value = NotDecoded
    /\ FaultsIdle

NextHex == decode_call

SpecHex == InitHex /\ [][NextHex]_vars

----------------------------------------------------------------------------
(* FaultCodes(raw_hex_fault_code).extract_faults() *)

MaxCodeLen == 9

fault_table ==
    [c \in 0..7 |->
      CASE c = 0 ->
             ("1" :> "Sensor not Present" @@
              "2" :> "Temperature sensor not working OR Device Temperature Out of the Operating Range" @@
              "3" :> "Active or Reference are weak" @@
              "4" :> "First Time Configuration Mode, no settings present")
        [] c = 1 ->
             ("1" :> "Last Reset was because of a Power on Reset" @@
              "2" :> "Last Reset was because of a Watchdog Timer" @@
              "3" :> "Last Reset was because of a Software Reset" @@
              "4" :> "Last Reset was because of an External Pin Interrupt")
        [] c = 2 ->
             ("1" :> "Gas concentration is not stable yet.")
        [] c = 3 ->
             ("1" :> "DAC is switched off" @@
              "2" :> "DAC output disable in Configuration mode")
        [] c = 4 ->
             ("1" :> "Break Indicator P1.0 set LOW for more than the maximum word length" @@
              "2" :> "Framing Error, stop bit was invalid" @@
              "3" :> "Parity Error, stop bit was invalid" @@
              "4" :> "Overrun Error, data overwrite before being read")
        [] c = 5 ->
             ("1" :> "Timer1 Error" @@
              "2" :> "Timer2/Watchdog Error")
        [] c = 6 ->
             ("1" :> "Over Range of Conc.%v.v Operation > Full Scale" @@
              "2" :> "Under Range of Conc.%v.v" @@
              "3" :> "Warm-Up Time, data not valid")
        [] c = 7 ->
             ("1" :> "Unable to store Data, to the INIR" @@
              "2" :> "Unable to read Data from the INIR")]

(* fault_bit.lower() == 'a' *)
IsSentinel(fault_bit) == lower(fault_bit) = "a"

(* fault_table[category][fault_bit] does not raise KeyError *)
KnownFault(cat, fault_bit) ==
    cat \in DOMAIN fault_table /\ fault_bit \in DOMAIN fault_table[cat]

(* mutant: validation accepts every code *)
EmptyCode_Never(code) == FALSE

(* validate_fault_code_response: the code is rejected *)
EmptyCode(code) == Len(code) = 0

FaultChars == {"a", "A", "1", "2", "3", "4", "9", "0"}

(* codes that differ from 'aaa...' in at most two positions *)
FaultCodeInputs ==
    UNION {{[i \in 1..n |-> IF i = p1 THEN c1 ELSE IF i = p2 THEN c2 ELSE "a"] :
             p1 \in 1..n, p2 \in 1..n, c1 \in FaultChars, c2 \in FaultChars} :
           n \in 1..MaxCodeLen} \cup {<<>>}

(* FaultCodes.__init__: validate, then the first extract_faults *)
FaultCodes_init ==
    /\ fc_pc = "new"
    /\ ~EmptyCode(raw_value)
    /\ fc_pc' = "loop"
    /\ run' = 1
    /\ category' = 7
    /\ fault_descriptions' = <<>>
    /\ next_bit' = 1
    /\ UNCHANGED <<sensorVars, facadeVars, validateVars, hexVars, raw_value,
                   faults_reported, fc_result, fc_exc>>

FaultCodes_init_rejects ==
    /\ fc_pc = "new"
    /\ EmptyCode(raw_value)
    /\ fc_pc' = "raised"
    /\ fc_exc' = "ValueError"
    /\ UNCHANGED <<sensorVars, facadeVars, validateVars, hexVars, raw_value, run, next_bit,
                   category, fault_descriptions, faults_reported, fc_result>>

(* mutant: a sentinel does not move on to the next category *)
ExtractSentinel_NoDecrement ==
    /\ fc_pc = "loop"
    /\ next_bit <= Len(raw_value)
    /\ IsSentinel(raw_value[next_bit])
    /\ next_bit' = next_bit + 1
    /\ UNCHANGED <<sensorVars, facadeVars, validateVars, hexVars, raw_value, fc_pc, run,
                   category, fault_descriptions, faults_reported, fc_result,
                   fc_exc>>

ExtractSentinel ==
    /\ fc_pc = "loop"
    /\ next_bit <= Len(raw_value)
    /\ IsSentinel(raw_value[next_bit])
    /\ category' = category - 1
    /\ next_bit' = next_bit + 1
    /\ UNCHANGED <<sensorVars, facadeVars, validateVars, hexVars, raw_value, fc_pc, run,
                   fault_descriptions, faults_reported, fc_result, fc_exc>>

ExtractKnown ==
    /\ fc_pc = "loop"
    /\ next_bit <= Len(raw_value)
    /\ ~IsSentinel(raw_value[next_bit])
    /\ KnownFault(category, raw_value[next_bit])
    /\ fault_descriptions' =
         Append(fault_descriptions, fault_table[category][raw_value[next_bit]])
    /\ category' = category - 1
    /\ next_bit' = next_bit + 1
    /\ UNCHANGED <<sensorVars, facadeVars, validateVars, hexVars, raw_value, fc_pc, run,
                   faults_reported, fc_result, fc_exc>>

(* mutant: an unknown fault is skipped *)
ExtractUnknown_Skips ==
    /\ fc_pc = "loop"
    /\ next_bit <= Len(raw_value)
    /\ ~IsSentinel(raw_value[next_bit])
    /\ ~KnownFault(category, raw_value[next_bit])
    /\ category' = category - 1
    /\ next_bit' = next_bit + 1
    /\ UNCHANGED <<sensorVars, facadeVars, validateVars, hexVars, raw_value, fc_pc, run,
                   fault_descriptions, faults_reported, fc_result, fc_exc>>

ExtractUnknown ==
    /\ fc_pc = "loop"
    /\ next_bit <= Len(raw_value)
    /\ ~IsSentinel(raw_value[next_bit])
    /\ ~KnownFault(category, raw_value[next_bit])
    /\ fc_pc' = "raised"
    /\ fc_exc' = "UnknownFaultCode"
    /\ UNCHANGED <<sensorVars, facadeVars, validateVars, hexVars, raw_value, run, next_bit,
                   category, fault_descriptions, faults_reported, fc_result>>

(* __init__ stores the first result; the caller then calls extract_faults *)
FaultCodes_constructed ==
    /\ fc_pc = "loop"
    /\ run = 1
    /\ next_bit > Len(raw_value)
    /\ faults_reported' = fault_descriptions
    /\ run' = 2
    /\ category' = 7
    /\ fault_descriptions' = <<>>
    /\ next_bit' = 1
    /\ UNCHANGED <<sensorVars, facadeVars, validateVars, hexVars, raw_value, fc_pc,
                   fc_result, fc_exc>>

ExtractReturn ==
    /\ fc_pc = "loop"
    /\ run = 2
    /\ next_bit > Len(raw_value)
    /\ fc_result' = fault_descriptions
    /\ fc_pc' = "returned"
    /\ UNCHANGED <<sensorVars, facadeVars, validateVars, hexVars, raw_value, run, next_bit,
                   category, fault_descriptions, faults_reported, fc_exc>>

InitFaults ==
    /\ FacadeIdle
    /\ SensorIdle
    /\ script = <<>>
    /\ fragLen = 0
    /\ ValidateIdle
    /\ HexIdle
    /\ raw_value \in FaultCodeInputs
    /\ fc_pc = "new"
    /\ run = 0
    /\ next_bit = 0
    /\ category = 0
    /\ fault_descriptions = <<>>
    /\ faults_reported = <<>>
    /\ fc_result = <<>>
    /\ fc_exc = NoException

NextFaults ==
    \/ FaultCodes_init \/ FaultCodes_init_rejects
    \/ ExtractSentinel \/ ExtractKnown \/ ExtractUnknown
    \/ FaultCodes_constructed \/ ExtractReturn

SpecFaults == InitFaults /\ [][NextFaults]_vars

----------------------------------------------------------------------------
(* Sensor.gas_concentration(frame) and Sensor.get_fault_descriptions()     *)

NonHexToken == "zzzzzzzz"
EmptyToken == ""
PpmTokens == {"000489ae", "00000BA6", NonHexToken}
FaultTokens == {"a1aaaa1a", "aaaaaaa9", "aaaaaaaa", EmptyToken}
KelvinTokens == {"00000ba6", "000489ae", NonHexToken}

(* the characters of a token *)
Spell ==
    "000489ae" :> <<"0", "0", "0", "4", "8", "9", "a", "e">> @@
    "00000BA6" :> <<"0", "0", "0", "0", "0", "B", "A", "6">> @@
    "00000ba6" :> <<"0", "0", "0", "0", "0", "b", "a", "6">> @@
    "zzzzzzzz" :> <<"z", "z", "z", "z", "z", "z", "z", "z">> @@
    "a1aaaa1a" :> <<"a", "1", "a", "a", "a", "a", "1", "a">> @@
    "aaaaaaa9" :> <<"a", "a", "a", "a", "a", "a", "a", "9">> @@
    "aaaaaaaa" :> <<"a", "a", "a", "a", "a", "a", "a", "a">> @@
    "" :> <<>>

(* frames with good markers, and the good example frame with one marker bad *)
FacadeFrames ==
    {<<START_FRAME, f1, f2, f3, "0000031b", "fffffce4", END_FRAME>> :
        f1 \in PpmTokens, f2 \in FaultTokens, f3 \in KelvinTokens}
    \cup
    {<<f0, "000489ae", "a1aaaa1a", "00000ba6", "0000031b", "fffffce4", f6>> :
        f0 \in {START_FRAME, ZeroToken}, f6 \in {END_FRAME, ZeroToken}}

(* the FaultCodes object of an earlier get_fault_descriptions is gone *)
FaultCodesDropped ==
    /\ raw_value' = <<>>
    /\ fc_pc' = "idle"
    /\ run' = 0
    /\ next_bit' = 0
    /\ category' = 0
    /\ fault_descriptions' = <<>>
    /\ faults_reported' = <<>>
    /\ fc_result' = <<>>
    /\ fc_exc' = NoException

(* value of the first n hexadecimal digits of h *)
RECURSIVE HexPrefixValue(_, _)
HexPrefixValue(h, n) ==
    IF n = 0 THEN 0 ELSE 16 * HexPrefixValue(h, n - 1) + DigitValue(h[n])

(* int(token, 16) *)
int_base16(token) ==
    IF Len(Spell[token]) > 0 /\ IsHex(Spell[token])
    THEN Outcome("int", HexPrefixValue(Spell[token], Len(Spell[token])),
                 NoException)
    ELSE Outcome("raise", 0, "ValueError")

(* a float, kept as an exact fraction *)
Fraction(n, d) == [num |-> n, den |-> d]

(* mutant: parts per million taken for parts per thousand *)
ppm_to_percentage_by_vol_Thousand(v) == Fraction(v, 1000)

(* Sensor._ppm_to_percentage_by_vol on the integer value of the field *)
ppm_to_percentage_by_vol(v) == Fraction(v, 10000)

(* round(x, 2) of x given in thousandths: nearest hundredth, ties to even *)
Round2(thousandths) ==
    LET q == thousandths \div 10
        r == thousandths % 10
    IN  IF r < 5 THEN q
        ELSE IF r > 5 THEN q + 1
        ELSE IF q % 2 = 0 THEN q ELSE q + 1

(* mutant: 273 subtracted instead of 273.15 *)
temperature_setter_273(v) == Fraction(Round2(100 * v - 273000), 100)

(* Sensor.temperature setter on the integer value of the field *)
temperature_setter(v) == Fraction(Round2(100 * v - 273150), 100)

FacadeReady == pc = "idle" /\ fc_pc \notin {"new", "loop"}

gas_concentration_rejected ==
    /\ FacadeReady
    /\ FaultCodesDropped
    /\ \E f \in FacadeFrames :
         /\ validate_response(f) # "True"
         /\ frame' = f
         /\ cause' = validate_response(f)
         /\ exc' = gas_concentration_except(validate_response(f))
    /\ UNCHANGED <<pc, clock, t_end, read_attempts, message, buffer, emitted,
                   srcVars, port_open, valid, hexVars, facadeVars>>

gas_concentration_bad_ppm ==
    /\ FacadeReady
    /\ FaultCodesDropped
    /\ \E f \in FacadeFrames :
         /\ validate_response(f) = "True"
         /\ int_base16(f[2]).kind = "raise"
         /\ frame' = f
         /\ cause' = int_base16(f[2]).error
         /\ exc' = gas_concentration_except(int_base16(f[2]).error)
    /\ UNCHANGED <<pc, clock, t_end, read_attempts, message, buffer, emitted,
                   srcVars, port_open, valid, hexVars, facadeVars>>

gas_concentration_bad_temperature ==
    /\ FacadeReady
    /\ FaultCodesDropped
    /\ \E f \in FacadeFrames :
         /\ validate_response(f) = "True"
         /\ int_base16(f[2]).kind = "int"
         /\ int_base16(f[4]).kind = "raise"
         /\ frame' = f
         /\ gas' = ppm_to_percentage_by_vol(int_base16(f[2]).value)
         /\ faults' = f[3]
         /\ cause' = int_base16(f[4]).error
         /\ exc' = gas_concentration_except(int_base16(f[4]).error)
    /\ UNCHANGED <<pc, clock, t_end, read_attempts, message, buffer, emitted,
                   srcVars, port_open, valid, hexVars, temperature,
                   good_frame>>

gas_concentration_ok ==
    /\ FacadeReady
    /\ FaultCodesDropped
    /\ \E f \in FacadeFrames :
         /\ validate_response(f) = "True"
         /\ int_base16(f[2]).kind = "int"
         /\ int_base16(f[4]).kind = "int"
         /\ frame' = f
         /\ gas' = ppm_to_percentage_by_vol(int_base16(f[2]).value)
         /\ faults' = f[3]
         /\ temperature' = temperature_setter(int_base16(f[4]).value)
         /\ good_frame' = f
    /\ cause' = NoException
    /\ exc' = NoException
    /\ UNCHANGED <<pc, clock, t_end, read_attempts, message, buffer, emitted,
                   srcVars, port_open, valid, hexVars>>

(* FaultCodes(self.faults): the constructor starts on the stored code *)
get_fault_descriptions ==
    /\ FacadeReady
    /\ faults # UnsetStr
    /\ raw_value' = Spell[faults]
    /\ fc_pc' = "new"
    /\ run' = 0
    /\ next_bit' = 0
    /\ category' = 0
    /\ fault_descriptions' = <<>>
    /\ faults_reported' = <<>>
    /\ fc_result' = <<>>
    /\ fc_exc' = NoException
    /\ UNCHANGED <<sensorVars, facadeVars, validateVars, hexVars>>

(* before any reading _faults is the type str, which has no len() *)
get_fault_descriptions_unset ==
    /\ FacadeReady
    /\ faults = UnsetStr
    /\ fc_pc # "raised"
    /\ fc_pc' = "raised"
    /\ fc_exc' = "TypeError"
    /\ UNCHANGED <<sensorVars, facadeVars, validateVars, hexVars, raw_value,
                   run, next_bit, category, fault_descriptions,
                   faults_reported, fc_result>>

InitFacade ==
    /\ FacadeIdle
    /\ SensorIdle
    /\ script = <<>>
    /\ fragLen = 0
    /\ ValidateIdle
    /\ HexIdle
    /\ FaultsIdle

NextFacade ==
    \/ gas_concentration_rejected \/ gas_concentration_bad_ppm
    \/ gas_concentration_bad_temperature \/ gas_concentration_ok
    \/ get_fault_descriptions \/ get_fault_descriptions_unset
    \/ FaultCodes_init \/ FaultCodes_init_rejects
    \/ ExtractSentinel \/ ExtractKnown \/ ExtractUnknown
    \/ FaultCodes_constructed \/ ExtractReturn

SpecFacade == InitFacade /\ [][NextFacade]_vars

----------------------------------------------------------------------------
(* Claims *)

(* C1: whenever _read_frame returns normally the returned sequence has     *)
(* exactly 7 tokens, and whenever it raises TimeoutError the accumulator   *)
(* has fewer than 7 tokens.                                                *)
C1_ReturnsExactlySeven ==
    /\ pc = "frame_read" => Len(message) = 7
    /\ cause = "TimeoutError" => Len(message) < 7

(* C2: given a leading fragment of mid-frame tokens followed by one full   *)
(* valid frame, all delivered before the deadline, read_frame returns      *)
(* exactly the 7 tokens of the valid frame and none of the fragment's.     *)
C2_FragmentThenFrameReturned ==
    (/\ pc \in {"frame_read", "returned", "raised"}
     /\ fragLen > 0
     /\ pending = <<>>
     /\ ~late)
    => (cause = NoException /\ message = ValidFrame)

(* C2 as amended: when no token of the fragment equals the start marker,   *)
(* whatever read_frame returns is exactly the valid frame; it may still    *)
(* raise TimeoutError.                                                     *)
C2_ReturnedFrameIsValidFrame ==
    (/\ pc = "frame_read"
     /\ fragLen > 0
     /\ START_FRAME \notin Range(Fragment))
    => message = ValidFrame

C2_Witness ==
    /\ pc = "frame_read"
    /\ fragLen > 1
    /\ START_FRAME \notin Range(Fragment)
    /\ message = ValidFrame
    /\ read_attempts = fragLen + FrameLen

(* C3: with a source that has only emitted noise (never the start marker), *)
(* read_frame terminates and terminates by raising TimeoutError; it never  *)
(* returns a frame.                                                        *)
NoiseOnly == message = <<>> /\ START_FRAME \notin Range(buffer)

C3_NoiseOnlyTimesOut ==
    /\ (InCall /\ NoiseOnly)
         ~> \/ pc = "raised" /\ cause = "TimeoutError"
            \/ ~NoiseOnly
            \/ cause = "SerialException"
    /\ [](pc = "frame_read" => START_FRAME \in Range(message))

C3_Witness ==
    /\ pc = "raised"
    /\ cause = "TimeoutError"
    /\ NoiseOnly
    /\ read_attempts = MaxEmit

(* C4: every failure of the frame synchronizer (timeout) or of the frame   *)
(* validator (bad start or end marker) during gas_concentration reaches    *)
(* the caller as INIRException.                                            *)
C4_OnlyINIRExceptionEscapes ==
    (pc = "raised" /\ cause \in {"TimeoutError", "MessageIntegrityError"})
    => exc = "INIRException"

(* C5: the serial port is closed on every exit path of read_frame and is   *)
(* never open outside a read_frame call.                                   *)
C5_PortClosedOutsideCall == ~InCall => ~port_open

C5_Witness ==
    /\ pc = "raised"
    /\ cause = "SerialException"
    /\ read_attempts > 0
    /\ ~port_open

(* C6: for every 7-token frame validate_response returns True if and only  *)
(* if token 0 is the start marker and token 6 is the end marker, and       *)
(* otherwise raises MessageIntegrityError; tokens 1 to 5 play no part.     *)
C6_ValidIffMarkers ==
    valid # NotCalled =>
        /\ valid \in {"True", "MessageIntegrityError"}
        /\ valid = "True" <=>
             (frame[1] = "0000005b" /\ frame[FrameLen] = "0000005d")

C6_Witness ==
    /\ valid = "True"
    /\ frame[2] = END_FRAME
    /\ frame[5] = ZeroToken
    /\ frame[6] = START_FRAME

(* C7: for every 8-character fault code whose characters are each the      *)
(* sentinel or a digit defined for the category of its position (leftmost  *)
(* = category 7), extract_faults returns, left to right, exactly the       *)
(* descriptions fault_table[7-i][c] of the non-sentinel characters; the    *)
(* all-sentinel code yields an empty list.                                 *)
RECURSIVE ExpectedFaults(_, _)
ExpectedFaults(code, i) ==
    IF i > Len(code) THEN <<>>
    ELSE (IF lower(code[i]) = "a" THEN <<>>
          ELSE <<fault_table[8 - i][code[i]]>>) \o ExpectedFaults(code, i + 1)

DefinedCode(code) ==
    /\ Len(code) = 8
    /\ \A i \in 1..8 :
         lower(code[i]) = "a" \/ code[i] \in DOMAIN fault_table[8 - i]

C7_DescriptionsByPosition ==
    (fc_pc \in {"returned", "raised"} /\ DefinedCode(raw_value)) =>
        /\ fc_pc = "returned"
        /\ fc_result = ExpectedFaults(raw_value, 1)
        /\ raw_value = [i \in 1..8 |-> "a"] => fc_result = <<>>

C7_Witness ==
    /\ fc_pc = "returned"
    /\ raw_value = <<"a", "1", "a", "a", "a", "a", "1", "a">>
    /\ fc_result = <<"Over Range of Conc.%v.v Operation > Full Scale",
                     "Last Reset was because of a Power on Reset">>

(* C8: for every fault code in which some non-sentinel character has no    *)
(* entry in the table of the category of its position, decoding fails with *)
(* UnknownFaultCode and returns no list; it is never silently skipped.     *)
UndefinedAt(code, i) ==
    /\ lower(code[i]) # "a"
    /\ (8 - i) \in 0..7 => code[i] \notin DOMAIN fault_table[8 - i]

C8_UnknownFaultRaises ==
    (/\ fc_pc \in {"returned", "raised"}
     /\ \E i \in DOMAIN raw_value : UndefinedAt(raw_value, i))
    => (fc_pc = "raised" /\ fc_exc = "UnknownFaultCode" /\ fc_result = <<>>)

C8_Witness ==
    /\ fc_pc = "raised"
    /\ fc_exc = "UnknownFaultCode"
    /\ Len(raw_value) = 8
    /\ raw_value[8] = "9"
    /\ raw_value[2] = "1"

(* C9: for every valid 2-character hex string h (00 to ff, either letter   *)
(* case), mode 'ascii' returns the single character whose code point is    *)
(* the value of h and mode 'decimal' returns the base-16 value of h.       *)
ToHex(n) == <<LowerDigits[(n \div 16) + 1], LowerDigits[(n % 16) + 1]>>

LowerCase(h) == [i \in DOMAIN h |-> lower(h[i])]

ValidHexPair == Len(hex_value) = 2 /\ IsHex(hex_value)

Decoded == decoded_value # NotDecoded

ReturnsValueOf(k) ==
    /\ decoded_value.kind = k
    /\ decoded_value.value \in 0..255
    /\ ToHex(decoded_value.value) = LowerCase(hex_value)

C9_HexPairDecodes ==
    (Decoded /\ ValidHexPair) =>
        /\ conversion_type = "ascii" => ReturnsValueOf("str")
        /\ conversion_type = "decimal" => ReturnsValueOf("int")

(* C9 as amended: mode 'ascii' returns the character for h from 00 to 7f   *)
(* and raises UnicodeDecodeError for h from 80 to ff; mode 'decimal'       *)
(* returns the base-16 value for every h from 00 to ff.                    *)
SevenBit == hex_value[1] \in {"0", "1", "2", "3", "4", "5", "6", "7"}

C9_AsciiOnlyBelow80 ==
    (Decoded /\ ValidHexPair) =>
        /\ (conversion_type = "ascii" /\ SevenBit) => ReturnsValueOf("str")
        /\ (conversion_type = "ascii" /\ ~SevenBit) =>
              (decoded_value.kind = "raise" /\
               decoded_value.error = "UnicodeDecodeError")
        /\ conversion_type = "decimal" => ReturnsValueOf("int")

C9_Witness ==
    /\ Decoded
    /\ hex_value = <<"5", "B">>
    /\ conversion_type = "ascii"
    /\ decoded_value = Outcome("str", 91, NoException)

(* C10: decode_single_hex_value fails with the invalid-length ValueError   *)
(* for every input whose length is not 2, for every mode, the unsupported  *)
(* ones included.                                                          *)
C10_LengthCheckedFirst ==
    (Decoded /\ Len(hex_value) # 2) =>
        /\ decoded_value.kind = "raise"
        /\ decoded_value.error = "ValueError: hex value should be 2 chars"

C10_Witness ==
    /\ Decoded
    /\ hex_value = <<"5", "b", "0">>
    /\ conversion_type = "binary"
    /\ decoded_value.error = "ValueError: hex value should be 2 chars"

(* C11: for every frame that passes validation and whose fields 1 and 3    *)
(* are valid hex, gas_concentration returns the integer value of field 1   *)
(* divided by 10000 and sets temperature to 10 * value - 27315 hundredths  *)
(* of a degree for the value of field 3; 29.739 and 25.05 for the example. *)
ToHex8(n) ==
    [i \in 1..8 |-> LowerDigits[((n \div (16 ^ (8 - i))) % 16) + 1]]

ValidHexToken(t) == Spell[t] # <<>> /\ IsHex(Spell[t])

ExampleFrame ==
    <<"0000005b", "000489ae", "a1aaaa1a", "00000ba6", "0000031b", "fffffce4",
      "0000005d">>

C11_ConcentrationAndTemperature ==
    (/\ frame \in FacadeFrames
     /\ frame[1] = "0000005b" /\ frame[7] = "0000005d"
     /\ ValidHexToken(frame[2]) /\ ValidHexToken(frame[4]))
    => /\ exc = NoException
       /\ gas.den = 10000
       /\ ToHex8(gas.num) = LowerCase(Spell[frame[2]])
       /\ temperature.den = 100
       /\ (temperature.num + 27315) % 10 = 0
       /\ ToHex8((temperature.num + 27315) \div 10) = LowerCase(Spell[frame[4]])
       /\ frame = ExampleFrame =>
            /\ gas.num * 1000 = 29739 * gas.den
            /\ temperature.num * 100 = 2505 * temperature.den

C11_Witness ==
    /\ frame = ExampleFrame
    /\ exc = NoException
    /\ gas = [num |-> 297390, den |-> 10000]
    /\ temperature = [num |-> 2505, den |-> 100]

(* C12: decoding an empty fault code fails with ValueError, raised by the  *)
(* validation step before any character is iterated; no description list   *)
(* is produced for it.                                                     *)
C12_EmptyCodeRejected ==
    (raw_value = <<>> /\ fc_pc \notin {"idle", "new"}) =>
        /\ fc_pc = "raised"
        /\ fc_exc = "ValueError"
        /\ run = 0
        /\ next_bit = 0
        /\ faults_reported = <<>>
        /\ fc_result = <<>>

C12_Witness ==
    /\ raw_value = <<>>
    /\ fc_pc = "raised"
    /\ fc_exc = "ValueError"
    /\ next_bit = 0

(* C13: the cap of 20 token reads applies to each outer polling iteration  *)
(* separately: an iteration that starts before the deadline with data      *)
(* waiting reads a token, however many were read in earlier iterations.    *)
TokenRead == InCall /\ Len(buffer') < Len(buffer)

C13_CapPerIteration ==
    [][(pc = "sleep" /\ pc' = "inner" /\ buffer' # <<>>) =>
          read_attempts' < ReadAttemptCap]_vars

(* C13 as amended: the cap of 20 applies to the whole read_frame call: the *)
(* counter is never reset inside a call, every token read counts, and at   *)
(* most 20 tokens are read per call in total.                              *)
C13_CapPerCall ==
    [][/\ InCall => read_attempts' >= read_attempts
       /\ TokenRead => (read_attempts < ReadAttemptCap /\
                        read_attempts' = read_attempts + 1)
       /\ read_attempts' <= ReadAttemptCap]_vars

C13_Witness ==
    /\ pc = "inner"
    /\ clock < t_end
    /\ buffer # <<>>
    /\ read_attempts = ReadAttemptCap
    /\ message = <<>>

(* C14: the timeout is a hard wall-clock deadline: once the time is at or  *)
(* past start + TIMEOUT no further token is read, and a frame is returned  *)
(* only if its 7th token was accumulated before the deadline.              *)
C14_HardDeadline ==
    [][/\ TokenRead => clock < t_end
       /\ (pc = "after" /\ pc' = "frame_read") => ~late]_vars

(* C14 as amended: the deadline is tested only at the head of each outer   *)
(* iteration: an iteration starts only before start + TIMEOUT and no token *)
(* is read once the test has failed, but inside an iteration the sleep and *)
(* the inner loop are not bounded by it.                                   *)
C14_DeadlineAtLoopHead ==
    [][/\ (pc = "outer" /\ pc' = "sleep") => clock < t_end
       /\ (pc = "outer" /\ clock >= t_end) => pc' \in {"outer", "after"}
       /\ TokenRead => pc = "inner"]_vars

C14_Witness ==
    /\ pc = "returned"
    /\ late
    /\ clock >= t_end
    /\ Len(message) = FrameLen

(* C15: gas_concentration on a frame that passes validation stores field  *)
(* 2 verbatim as the fault code and succeeds whether or not the code is    *)
(* decodable; UnknownFaultCode is raised only by a later                   *)
(* get_fault_descriptions, which decodes the fault code of the most recent *)
(* successful reading.                                                     *)
FaultCodesStarted == fc_pc \in {"new", "loop", "returned", "raised"}

C15_DecodesLastSuccessfulReading ==
    /\ (/\ frame \in FacadeFrames
        /\ validate_response(frame) = "True"
        /\ ValidHexToken(frame[2]) /\ ValidHexToken(frame[4]))
       => (exc = NoException /\ faults = frame[3])
    /\ fc_exc = "UnknownFaultCode" => fc_pc = "raised"
    /\ (FaultCodesStarted /\ good_frame # <<>>) =>
          raw_value = Spell[good_frame[3]]

(* C16: whenever the accumulator of _read_frame is non-empty its first     *)
(* token is the start marker; a frame produced by read_frame fails         *)
(* validate_response only with the bad-end error, never the bad-start one. *)
C16_AccumulatorStartsWithMarker ==
    /\ message # <<>> => message[1] = START_FRAME
    /\ (pc = "raised" /\ cause = "MessageIntegrityError") =>
          (message[1] = START_FRAME /\ message[7] # END_FRAME)

C16_Witness ==
    /\ pc = "raised"
    /\ cause = "MessageIntegrityError"
    /\ message[1] = START_FRAME
    /\ message[7] = DataToken

(* C17: every sequence returned by read_frame that passes                  *)
(* validate_response has exactly 7 tokens; an accumulator of more than 7   *)
(* tokens is never accepted.                                               *)
C17_AcceptedFrameHasSeven ==
    /\ pc = "returned" => Len(message) = FrameLen
    /\ (pc = "frame_read" /\ Len(message) > FrameLen) =>
          validate_response(message) # "True"

C17_Witness ==
    /\ pc = "returned"
    /\ Len(message) = FrameLen
    /\ buffer # <<>>
    /\ \E i \in 2..6 : message[i] = END_FRAME

(* C18: after any sequence of gas_concentration calls the stored           *)
(* concentration, fault code and temperature come from the same frame: a   *)
(* call either updates all three from its frame or leaves all three        *)
(* unchanged.                                                              *)
C18_AllThreeOrNone ==
    [][\/ UNCHANGED <<gas, faults, temperature>>
       \/ /\ gas' = ppm_to_percentage_by_vol(int_base16(frame'[2]).value)
          /\ faults' = frame'[3]
          /\ temperature' = temperature_setter(int_base16(frame'[4]).value)
          /\ exc' = NoException]_vars

(* C19: for every non-empty fault code of any length the category index of *)
(* extract_faults is within 0..7 at every character processed.             *)
C19_CategoryInRange ==
    (fc_pc = "loop" /\ next_bit <= Len(raw_value)) => category \in 0..7

====
